---- MODULE Spec2Model ----
(***************************************************************************)
(* Label matching and test-assignment resolution of                        *)
(* thousandeyes_data_collection.py: agent_matches_filter,                  *)
(* agent_matches_label, build_label_agents_map, build_test_agents_map,     *)
(* build_test_agent_assignment_df and the correlation steps of main.       *)
(*                                                                         *)
(* A Python str is a sequence of one-character strings, so that split,     *)
(* strip, lower and join are modelled by what they do to the characters.   *)
(* A Python dict is the sequence of its items in insertion order.          *)
(***************************************************************************)
EXTENDS Integers, Sequences, FiniteSets, TLC

(***************************************************************************)
(* Bounds of the model: the longest inventory, catalog and test list.      *)
(***************************************************************************)
MaxAgents == 2
MaxLabels == 2
MaxTests == 2

(***************************************************************************)
(* Characters and strings.                                                 *)
(***************************************************************************)
UpperChars ==
    << "A", "B", "C", "D", "E", "F", "G", "H", "I", "J", "K", "L", "M",
       "N", "O", "P", "Q", "R", "S", "T", "U", "V", "W", "X", "Y", "Z" >>

LowerChars ==
    << "a", "b", "c", "d", "e", "f", "g", "h", "i", "j", "k", "l", "m",
       "n", "o", "p", "q", "r", "s", "t", "u", "v", "w", "x", "y", "z" >>

DigitChars == << "0", "1", "2", "3", "4", "5", "6", "7", "8", "9" >>

\* The characters of the model in code-point order (Python compares str by
\* code point).
CodePoints ==
    << " ", ",", "-", ".", "/" >> \o DigitChars \o << ";", "=" >>
        \o UpperChars \o LowerChars \o << "|" >>

Ord(c) == CHOOSE i \in 1..Len(CodePoints) : CodePoints[i] = c

IsUpper(c) == \E i \in 1..Len(UpperChars) : UpperChars[i] = c

\* str.lower() on one character
LowerChar(c) ==
    IF IsUpper(c)
    THEN LowerChars[CHOOSE i \in 1..Len(UpperChars) : UpperChars[i] = c]
    ELSE c

\* str.lower()
Lower(s) == [i \in 1..Len(s) |-> LowerChar(s[i])]

IsSpace(c) == c = " "

RECURSIVE LStrip(_)
LStrip(s) == IF s # << >> /\ IsSpace(s[1]) THEN LStrip(Tail(s)) ELSE s

RECURSIVE RStrip(_)
RStrip(s) ==
    IF s # << >> /\ IsSpace(s[Len(s)]) THEN RStrip(SubSeq(s, 1, Len(s) - 1)) ELSE s

\* str.strip()
Strip(s) == RStrip(LStrip(s))

\* str.split(sep) for a one-character separator: "".split(",") is [""]
RECURSIVE Split(_, _)
Split(s, sep) ==
    IF \A i \in 1..Len(s) : s[i] # sep
    THEN << s >>
    ELSE LET k == CHOOSE i \in 1..Len(s) :
                      s[i] = sep /\ \A j \in 1..(i - 1) : s[j] # sep
         IN  << SubSeq(s, 1, k - 1) >> \o Split(SubSeq(s, k + 1, Len(s)), sep)

\* sep.join(list)
RECURSIVE Join(_, _)
Join(list, sep) ==
    IF list = << >> THEN << >>
    ELSE IF Len(list) = 1 THEN list[1]
    ELSE list[1] \o sep \o Join(Tail(list), sep)

\* s < t for two str (lexicographic by code point)
RECURSIVE StrLess(_, _)
StrLess(s, t) ==
    IF t = << >> THEN FALSE
    ELSE IF s = << >> THEN TRUE
    ELSE IF s[1] # t[1] THEN Ord(s[1]) < Ord(t[1])
    ELSE StrLess(Tail(s), Tail(t))

\* sorted(set_of_str)
RECURSIVE Sorted(_)
Sorted(S) ==
    IF S = {} THEN << >>
    ELSE LET m == CHOOSE x \in S : \A y \in S \ {x} : StrLess(x, y)
         IN  << m >> \o Sorted(S \ {m})

\* needle in haystack, for two str
Contains(haystack, needle) ==
    \E i \in 0..(Len(haystack) - Len(needle)) :
        SubSeq(haystack, i + 1, i + Len(needle)) = needle

Range(seq) == {seq[i] : i \in 1..Len(seq)}

\* [f(x) for x in seq]
MapStrip(seq) == [i \in 1..Len(seq) |-> Strip(seq[i])]

NonEmpty(s) == s # << >>

\* [v.strip() for v in raw.split(",") if v.strip()]
SplitStripNonEmpty(raw) == SelectSeq(MapStrip(Split(raw, ",")), NonEmpty)

(***************************************************************************)
(* String literals of the source.                                          *)
(***************************************************************************)
KeyAgentId == << "a", "g", "e", "n", "t", "-", "i", "d" >>
KeyUsername == << "u", "s", "e", "r", "n", "a", "m", "e" >>
KeyLocalNetwork == << "l", "o", "c", "a", "l", "-", "n", "e", "t", "w", "o", "r", "k" >>
KeyVpnVendor == << "v", "p", "n", "-", "v", "e", "n", "d", "o", "r" >>
KeyVpnType == << "v", "p", "n", "T", "y", "p", "e" >>
KeyConnection == << "c", "o", "n", "n", "e", "c", "t", "i", "o", "n" >>
ModeIn == << "i", "n" >>
MatchAnd == << "a", "n", "d" >>
SelAllAgents == << "a", "l", "l", "-", "a", "g", "e", "n", "t", "s" >>
SelSpecificAgents ==
    << "s", "p", "e", "c", "i", "f", "i", "c", "-", "a", "g", "e", "n", "t", "s" >>
SelAgentLabels == << "a", "g", "e", "n", "t", "-", "l", "a", "b", "e", "l", "s" >>

(***************************************************************************)
(* ipaddress.ip_address and ipaddress.ip_network(strict=False), for the    *)
(* IPv4 dotted-quad and "/prefix" forms (the only forms of the model's     *)
(* inputs); an address is the tuple of its four octets.                    *)
(***************************************************************************)
IsDigits(s) == s # << >> /\ \A i \in 1..Len(s) : s[i] \in Range(DigitChars)

DigitVal(c) == (CHOOSE i \in 1..Len(DigitChars) : DigitChars[i] = c) - 1

RECURSIVE ToInt(_)
ToInt(s) ==
    IF s = << >> THEN 0
    ELSE ToInt(SubSeq(s, 1, Len(s) - 1)) * Len(DigitChars) + DigitVal(s[Len(s)])

OctetLimit == 255
OctetBits == 8
MaxOctetLen == 3
NumOctets == 4

\* one octet of a dotted quad: 1 to 3 digits, no leading zero, at most 255
ValidOctet(s) ==
    /\ IsDigits(s)
    /\ Len(s) <= MaxOctetLen
    /\ (Len(s) > 1 => s[1] # "0")
    /\ ToInt(s) <= OctetLimit

\* ipaddress.ip_address(ip_str) does not raise ValueError
ValidIp(ip_str) ==
    LET parts == Split(ip_str, ".")
    IN  Len(parts) = NumOctets /\ \A i \in 1..NumOctets : ValidOctet(parts[i])

IpOctets(ip_str) == [i \in 1..NumOctets |-> ToInt(Split(ip_str, ".")[i])]

\* ipaddress.ip_network(net_str, strict=False) does not raise ValueError
ValidNetwork(net_str) ==
    LET parts == Split(net_str, "/")
    IN  /\ Len(parts) <= 2
        /\ ValidIp(parts[1])
        /\ Len(parts) = 2 =>
               IsDigits(parts[2]) /\ ToInt(parts[2]) <= NumOctets * OctetBits

PrefixLen(net_str) ==
    LET parts == Split(net_str, "/")
    IN  IF Len(parts) = 2 THEN ToInt(parts[2]) ELSE NumOctets * OctetBits

RECURSIVE Pow2(_)
Pow2(n) == IF n = 0 THEN 1 ELSE 2 * Pow2(n - 1)

\* ip_obj in net: the first PrefixLen bits of both addresses agree
InNetwork(ip_str, net_str) ==
    LET ip == IpOctets(ip_str)
        net == IpOctets(Split(net_str, "/")[1])
        p == PrefixLen(net_str)
        bits(k) == LET left == p - OctetBits * (k - 1)
                   IN  IF left <= 0 THEN 0
                       ELSE IF left >= OctetBits THEN OctetBits ELSE left
    IN  \A k \in 1..NumOctets :
            ip[k] \div Pow2(OctetBits - bits(k)) = net[k] \div Pow2(OctetBits - bits(k))

\* ip_in_any_subnet that returns False at the first network string that does
\* not parse
ip_in_any_subnet_StopsAtInvalid(ip_str, subnet_str_list) ==
    /\ ValidIp(ip_str)
    /\ \E i \in 1..Len(subnet_str_list) :
           /\ \A j \in 1..i : ValidNetwork(subnet_str_list[j])
           /\ InNetwork(ip_str, subnet_str_list[i])

ip_in_any_subnet(ip_str, subnet_str_list) ==
    /\ ValidIp(ip_str)
    /\ \E i \in 1..Len(subnet_str_list) :
           ValidNetwork(subnet_str_list[i]) /\ InNetwork(ip_str, subnet_str_list[i])

(***************************************************************************)
(* agent_matches_filter: one clause against one agent row.                 *)
(***************************************************************************)
\* [x.strip() for x in field.split(",") if x]
SplitStripTruthy(field) == MapStrip(SelectSeq(Split(field, ","), NonEmpty))

\* agent_matches_filter without the test of mode
agent_matches_filter_ModeIgnored(agent_row, filter_key_raw, filter_values, mode) ==
    LET filter_key == Strip(Lower(filter_key_raw))
    IN  IF filter_key = KeyAgentId
        THEN Strip(agent_row.id) \in Range(filter_values)
        ELSE IF filter_key = KeyUsername
        THEN Range(SplitStripTruthy(agent_row.usernames)) \cap Range(filter_values) # {}
        ELSE IF filter_key = KeyLocalNetwork
        THEN \E ip_str \in Range(SplitStripTruthy(agent_row.localIpv4)) :
                 ip_in_any_subnet(ip_str, filter_values)
        ELSE IF filter_key = KeyConnection
        THEN {Lower(t) : t \in Range(SplitStripTruthy(agent_row.hardwareTypes))}
                 \cap {Lower(v) : v \in Range(filter_values)} # {}
        ELSE IF filter_key = KeyVpnVendor \/ filter_key = KeyVpnType
        THEN \E fv \in Range(filter_values) :
                 Contains(Lower(agent_row.vpnInfo), Lower(fv))
        ELSE FALSE

\* agent_matches_filter with the vpn-vendor values searched as they are written
agent_matches_filter_VpnCaseSensitive(agent_row, filter_key_raw, filter_values, mode) ==
    LET filter_key == Strip(Lower(filter_key_raw))
    IN  IF Lower(mode) # ModeIn THEN FALSE
        ELSE IF filter_key = KeyAgentId
        THEN Strip(agent_row.id) \in Range(filter_values)
        ELSE IF filter_key = KeyUsername
        THEN Range(SplitStripTruthy(agent_row.usernames)) \cap Range(filter_values) # {}
        ELSE IF filter_key = KeyLocalNetwork
        THEN \E ip_str \in Range(SplitStripTruthy(agent_row.localIpv4)) :
                 ip_in_any_subnet(ip_str, filter_values)
        ELSE IF filter_key = KeyConnection
        THEN {Lower(t) : t \in Range(SplitStripTruthy(agent_row.hardwareTypes))}
                 \cap {Lower(v) : v \in Range(filter_values)} # {}
        ELSE IF filter_key = KeyVpnVendor \/ filter_key = KeyVpnType
        THEN \E fv \in Range(filter_values) :
                 Contains(agent_row.vpnInfo, fv)
        ELSE FALSE

\* agent_matches_filter with the hardware types and the values compared as they
\* are written
agent_matches_filter_ConnectionCaseSensitive(agent_row, filter_key_raw, filter_values, mode) ==
    LET filter_key == Strip(Lower(filter_key_raw))
    IN  IF Lower(mode) # ModeIn THEN FALSE
        ELSE IF filter_key = KeyAgentId
        THEN Strip(agent_row.id) \in Range(filter_values)
        ELSE IF filter_key = KeyUsername
        THEN Range(SplitStripTruthy(agent_row.usernames)) \cap Range(filter_values) # {}
        ELSE IF filter_key = KeyLocalNetwork
        THEN \E ip_str \in Range(SplitStripTruthy(agent_row.localIpv4)) :
                 ip_in_any_subnet(ip_str, filter_values)
        ELSE IF filter_key = KeyConnection
        THEN Range(SplitStripTruthy(agent_row.hardwareTypes)) \cap Range(filter_values) # {}
        ELSE IF filter_key = KeyVpnVendor \/ filter_key = KeyVpnType
        THEN \E fv \in Range(filter_values) :
                 Contains(Lower(agent_row.vpnInfo), Lower(fv))
        ELSE FALSE

\* agent_matches_filter with the usernames and the values compared in lower case
agent_matches_filter_UsernameIgnoresCase(agent_row, filter_key_raw, filter_values, mode) ==
    LET filter_key == Strip(Lower(filter_key_raw))
    IN  IF Lower(mode) # ModeIn THEN FALSE
        ELSE IF filter_key = KeyAgentId
        THEN Strip(agent_row.id) \in Range(filter_values)
        ELSE IF filter_key = KeyUsername
        THEN {Lower(u) : u \in Range(SplitStripTruthy(agent_row.usernames))}
                 \cap {Lower(v) : v \in Range(filter_values)} # {}
        ELSE IF filter_key = KeyLocalNetwork
        THEN \E ip_str \in Range(SplitStripTruthy(agent_row.localIpv4)) :
                 ip_in_any_subnet(ip_str, filter_values)
        ELSE IF filter_key = KeyConnection
        THEN {Lower(t) : t \in Range(SplitStripTruthy(agent_row.hardwareTypes))}
                 \cap {Lower(v) : v \in Range(filter_values)} # {}
        ELSE IF filter_key = KeyVpnVendor \/ filter_key = KeyVpnType
        THEN \E fv \in Range(filter_values) :
                 Contains(Lower(agent_row.vpnInfo), Lower(fv))
        ELSE FALSE

agent_matches_filter(agent_row, filter_key_raw, filter_values, mode) ==
    LET filter_key == Strip(Lower(filter_key_raw))
    IN  IF Lower(mode) # ModeIn THEN FALSE
        ELSE IF filter_key = KeyAgentId
        THEN Strip(agent_row.id) \in Range(filter_values)
        ELSE IF filter_key = KeyUsername
        THEN Range(SplitStripTruthy(agent_row.usernames)) \cap Range(filter_values) # {}
        ELSE IF filter_key = KeyLocalNetwork
        THEN \E ip_str \in Range(SplitStripTruthy(agent_row.localIpv4)) :
                 ip_in_any_subnet(ip_str, filter_values)
        ELSE IF filter_key = KeyConnection
        THEN {Lower(t) : t \in Range(SplitStripTruthy(agent_row.hardwareTypes))}
                 \cap {Lower(v) : v \in Range(filter_values)} # {}
        ELSE IF filter_key = KeyVpnVendor \/ filter_key = KeyVpnType
        THEN \E fv \in Range(filter_values) :
                 Contains(Lower(agent_row.vpnInfo), Lower(fv))
        ELSE FALSE

(***************************************************************************)
(* agent_matches_label: the clauses of a label row combined by its         *)
(* matchType.                                                              *)
(***************************************************************************)
\* match_type of agent_matches_label: lower-cased, stripped, "and" if empty
match_type(label_row) ==
    LET mt == Strip(Lower(label_row.matchType))
    IN  IF mt = << >> THEN MatchAnd ELSE mt

\* one "if label_row.get(field): ... filters_to_check.append(...)" block
FilterBlock(field, key) ==
    IF field # << >>
    THEN << [key |-> key, values |-> SplitStripNonEmpty(field), mode |-> ModeIn] >>
    ELSE << >>

\* filters_to_check without the block of username_filter
filters_to_check_UsernameSkipped(label_row) ==
    FilterBlock(label_row.agent_id_filter, KeyAgentId)
        \o FilterBlock(label_row.local_network_filter, KeyLocalNetwork)
        \o FilterBlock(label_row.vpn_vendor_filter, KeyVpnVendor)
        \o FilterBlock(label_row.connection_filter, KeyConnection)

filters_to_check(label_row) ==
    FilterBlock(label_row.agent_id_filter, KeyAgentId)
        \o FilterBlock(label_row.username_filter, KeyUsername)
        \o FilterBlock(label_row.local_network_filter, KeyLocalNetwork)
        \o FilterBlock(label_row.vpn_vendor_filter, KeyVpnVendor)
        \o FilterBlock(label_row.connection_filter, KeyConnection)

\* Evaluate with any(...) for every match_type
Evaluate_AlwaysAny(mt, results) == \E i \in 1..Len(results) : results[i]

\* Evaluate with all(...) for every match_type
Evaluate_AlwaysAll(mt, results) == \A i \in 1..Len(results) : results[i]

\* all(...) when match_type is "and", any(...) otherwise
Evaluate(mt, results) ==
    IF mt = MatchAnd
    THEN \A i \in 1..Len(results) : results[i]
    ELSE \E i \in 1..Len(results) : results[i]

agent_matches_label(agent_row, label_row) ==
    LET fs == filters_to_check(label_row)
    IN  Evaluate(match_type(label_row),
                 [i \in 1..Len(fs) |->
                     agent_matches_filter(agent_row, fs[i].key, fs[i].values, fs[i].mode)])

(***************************************************************************)
(* Python dict: the sequence of its items, in insertion order.             *)
(***************************************************************************)
EmptyDict == << >>

DictHas(d, k) == \E i \in 1..Len(d) : d[i].key = k

DictGet(d, k) == d[CHOOSE i \in 1..Len(d) : d[i].key = k].val

\* d.get(k, default)
DictGetDefault(d, k, default) == IF DictHas(d, k) THEN DictGet(d, k) ELSE default

\* d[k] = v: a new key goes last, an old key keeps its place
DictPut(d, k, v) ==
    IF DictHas(d, k)
    THEN [i \in 1..Len(d) |-> IF d[i].key = k THEN [key |-> k, val |-> v] ELSE d[i]]
    ELSE Append(d, [key |-> k, val |-> v])

DictKeys(d) == {d[i].key : i \in 1..Len(d)}

\* df.set_index(key_column)[value_column].to_dict(), from the (key, value) pairs
RECURSIVE ToDict(_)
ToDict(pairs) ==
    IF pairs = << >> THEN EmptyDict
    ELSE DictPut(ToDict(SubSeq(pairs, 1, Len(pairs) - 1)),
                 pairs[Len(pairs)][1], pairs[Len(pairs)][2])

(***************************************************************************)
(* The rows the fetch functions build from the API's records.              *)
(***************************************************************************)
VpnTypePrefix == << "v", "p", "n", "T", "y", "p", "e", "=" >>
VpnGatewayPrefix == << ",", "g", "a", "t", "e", "w", "a", "y", "=" >>
VpnClientPrefix == << ",", "c", "l", "i", "e", "n", "t", "=" >>
VpnRangesPrefix == << ",", "r", "a", "n", "g", "e", "s", "=" >>

PrivateA == 10
PrivateC1 == 192
PrivateC2 == 168
PrivateB == 172
PrivateBLow == 16
PrivateBHigh == 31

is_private_ipv4(ip) ==
    LET parts == Split(ip, ".")
    IN  /\ ip # << >>
        /\ Len(parts) = NumOctets
        /\ \A i \in 1..NumOctets : IsDigits(parts[i])
        /\ LET p0 == ToInt(parts[1])
               p1 == ToInt(parts[2])
           IN  \/ p0 = PrivateA
               \/ p0 = PrivateC1 /\ p1 = PrivateC2
               \/ p0 = PrivateB /\ PrivateBLow <= p1 /\ p1 <= PrivateBHigh

\* info_str of one VPN profile
VpnInfoStr(vpnp) ==
    VpnTypePrefix \o vpnp.vpnType
        \o VpnGatewayPrefix \o vpnp.vpnGatewayAddress
        \o VpnClientPrefix \o Join(vpnp.vpnClientAddresses, << ";" >>)
        \o VpnRangesPrefix \o Join(vpnp.vpnClientNetworkRange, << ";" >>)

\* record of fetch_endpoint_agents
EndpointAgentRow(agent) ==
    [id |-> agent.id,
     name |-> agent.name,
     usernames |->
         Join(Sorted({Strip(u) : u \in {x \in agent.userNames : x # << >>}}), << "," >>),
     localIpv4 |->
         Join(Sorted({ip \in agent.ipAddresses : is_private_ipv4(ip)}), << "," >>),
     hardwareTypes |->
         Join(Sorted({h \in agent.hardwareTypes : h # << >>}), << "," >>),
     vpnInfo |->
         Join([i \in 1..Len(agent.vpnProfiles) |-> VpnInfoStr(agent.vpnProfiles[i])],
              << "|" >>)]

\* filter_info[key] after the loop over label["filters"]
RECURSIVE FilterInfo(_, _)
FilterInfo(filters, key) ==
    IF filters = << >> THEN << >>
    ELSE (IF Lower(filters[1].key) = key THEN filters[1].values ELSE << >>)
             \o FilterInfo(Tail(filters), key)

\* row of fetch_labels
LabelRow(label) ==
    [id |-> label.id,
     matchType |-> label.matchType,
     agent_id_filter |-> Join(FilterInfo(label.filters, KeyAgentId), << "," >>),
     local_network_filter |-> Join(FilterInfo(label.filters, KeyLocalNetwork), << "," >>),
     vpn_vendor_filter |-> Join(FilterInfo(label.filters, KeyVpnVendor), << "," >>),
     connection_filter |-> Join(FilterInfo(label.filters, KeyConnection), << "," >>),
     username_filter |-> Join(FilterInfo(label.filters, KeyUsername), << "," >>)]

\* record of fetch_scheduled_tests
ScheduledTestRow(test) ==
    [testID |-> test.testId,
     testName |-> test.testName,
     agentSelectorType |-> test.agentSelectorType,
     assignedAgentsRaw |->
         IF test.agents # << >> THEN Join(test.agents, << "," >>) ELSE << >>,
     assignedLabelsRaw |->
         IF test.endpointAgentLabels # << >>
         THEN Join(test.endpointAgentLabels, << "," >>) ELSE << >>]

(***************************************************************************)
(* The API's records the model runs on.                                    *)
(***************************************************************************)
A1 == << "A", "1" >>
A2 == << "A", "2" >>
A3 == << "A", "3" >>
A9 == << "A", "9" >>
L1 == << "L", "1" >>
L2 == << "L", "2" >>
L3 == << "L", "3" >>
L4 == << "L", "4" >>
L5 == << "L", "5" >>
L9 == << "L", "9" >>
T1 == << "T", "1" >>
T2 == << "T", "2" >>
T3 == << "T", "3" >>
T4 == << "T", "4" >>
T5 == << "T", "5" >>
T6 == << "T", "6" >>
NamePc1 == << "p", "c", "1" >>
NamePc2 == << "p", "c", "2" >>
NamePc3 == << "p", "c", "3" >>
Bob == << "b", "o", "b" >>
Alice == << "a", "l", "i", "c", "e" >>
Ip10 == << "1", "0", ".", "0", ".", "0", ".", "5" >>
Ip192 == << "1", "9", "2", ".", "1", "6", "8", ".", "1", ".", "5" >>
IpPublic == << "8", ".", "8", ".", "8", ".", "8" >>
Net10 == << "1", "0", ".", "0", ".", "0", ".", "0", "/", "8" >>
Ethernet == << "E", "t", "h", "e", "r", "n", "e", "t" >>
Wireless == << "W", "i", "r", "e", "l", "e", "s", "s" >>
EthernetLower == << "e", "t", "h", "e", "r", "n", "e", "t" >>
CiscoVpn == << "c", "i", "s", "c", "o", "-", "a", "n", "y", "c", "o", "n", "n", "e", "c", "t" >>
CiscoUpper == << "C", "i", "s", "c", "o" >>
TestWeb == << "w", "e", "b" >>
TestDns == << "d", "n", "s" >>
MtAndUpper == << " ", "A", "N", "D", " " >>
MtOr == << "o", "r" >>
MtOrUpper == << "O", "r", " " >>
MtXor == << "x", "o", "r" >>
Empty == << >>
Blank == << " " >>
SelOther == << "a", "n", "y", "-", "a", "g", "e", "n", "t" >>

Agent1 ==
    [id |-> A1, name |-> NamePc1, userNames |-> {Bob}, ipAddresses |-> {Ip10},
     hardwareTypes |-> {Ethernet},
     vpnProfiles |-> << [vpnType |-> CiscoVpn, vpnGatewayAddress |-> Empty,
                         vpnClientAddresses |-> << >>,
                         vpnClientNetworkRange |-> << >>] >>]

Agent2 ==
    [id |-> A2, name |-> NamePc2, userNames |-> {Alice},
     ipAddresses |-> {Ip192, IpPublic}, hardwareTypes |-> {Wireless, Ethernet},
     vpnProfiles |-> << >>]

Agent3 ==
    [id |-> A3, name |-> NamePc3, userNames |-> {}, ipAddresses |-> {},
     hardwareTypes |-> {}, vpnProfiles |-> << >>]

AgentPool == << Agent1, Agent2, Agent3 >>

\* the sequences of at most n members of pool, in the pool's order
SubSeqsInOrder(pool, n) ==
    {s \in UNION {[1..k -> Range(pool)] : k \in 0..n} :
        \A i, j \in 1..Len(s) :
            i < j => \E a, b \in 1..Len(pool) : a < b /\ pool[a] = s[i] /\ pool[b] = s[j]}

\* the sequences of at most n distinct members of pool, in any order
DistinctSeqs(pool, n) ==
    {s \in UNION {[1..k -> Range(pool)] : k \in 0..n} :
        \A i, j \in 1..Len(s) : i # j => s[i] # s[j]}

Inventories == SubSeqsInOrder(AgentPool, MaxAgents)

Filter(key, values) == [key |-> key, values |-> values]

LabelBob ==
    [id |-> L1, matchType |-> MatchAnd, filters |-> << Filter(KeyUsername, << Bob >>) >>]

LabelEither ==
    [id |-> L2, matchType |-> MtOr,
     filters |-> << Filter(KeyAgentId, << A2 >>), Filter(KeyUsername, << Bob >>) >>]

LabelAll == [id |-> L3, matchType |-> MatchAnd, filters |-> << >>]

LabelStrict ==
    [id |-> L4, matchType |-> MtAndUpper,
     filters |-> << Filter(KeyUsername, << Bob, Alice >>), Filter(KeyAgentId, << A1, A3 >>) >>]

LabelNone == [id |-> L5, matchType |-> MtOrUpper, filters |-> << >>]

LabelPool == << LabelBob, LabelEither, LabelAll, LabelStrict, LabelNone >>

Catalogs == SubSeqsInOrder(LabelPool, MaxLabels)

\* Labels over every combination of a matchType and, per filter key, no filter
\* object or one of a few value lists (among them values that are empty or
\* blank text).
MatchTypes == {MatchAnd, MtAndUpper, Empty, MtOr, MtOrUpper, MtXor}

FilterObjects(key, values) == IF values = << >> THEN << >> ELSE << Filter(key, values) >>

WideLabels ==
    {[id |-> L1, matchType |-> mt,
      filters |-> FilterObjects(KeyLocalNetwork, net) \o FilterObjects(KeyVpnVendor, vpn)
                      \o FilterObjects(KeyConnection, conn)
                      \o FilterObjects(KeyUsername, user) \o FilterObjects(KeyAgentId, aid)] :
        mt \in MatchTypes,
        aid \in {<< >>, << A1, A3 >>, << Blank >>},
        user \in {<< >>, << Bob >>, << Blank >>, << Empty, Empty >>},
        net \in {<< >>, << Net10 >>},
        vpn \in {<< >>, << CiscoUpper >>},
        conn \in {<< >>, << EthernetLower >>, << Blank >>}}

ApiTest(id, name, sel, agents, labels) ==
    [testId |-> id, testName |-> name, agentSelectorType |-> sel,
     agents |-> agents, endpointAgentLabels |-> labels]

TestPool ==
    << ApiTest(T1, TestWeb, SelAgentLabels, << >>, << L1 >>),
       ApiTest(T2, TestDns, SelAgentLabels, << A1 >>, << L2, L9, L3 >>),
       ApiTest(T3, TestWeb, SelAllAgents, << A1 >>, << L1 >>),
       ApiTest(T4, TestDns, SelSpecificAgents, << A2, A9 >>, << L1 >>),
       ApiTest(T5, TestWeb, Empty, << A1 >>, << L3 >>),
       ApiTest(T6, TestDns, SelOther, << A2 >>, << L1 >>) >>

TestLists == DistinctSeqs(TestPool, MaxTests)

\* None, the value of label.get("id") and of test.get("testId") for a record
\* that has no id (no str of the model has an element of several characters)
None == << "<None>" >>

LabelNoId ==
    [id |-> None, matchType |-> MatchAnd, filters |-> << Filter(KeyUsername, << Bob >>) >>]

TestNoId == ApiTest(None, TestWeb, SelAgentLabels, << >>, << L9 >>)

(***************************************************************************)
(* State: the API's records, the data frames built from them, and the      *)
(* variables of main's correlation steps and of the three functions it     *)
(* calls.                                                                  *)
(***************************************************************************)
VARIABLES
    api_agents, api_labels, api_tests,
    endpoint_agents_df, labels_df, scheduled_tests_df,
    pc,
    label_agents, lbl_idx, ag_idx, matching_agents,
    label_agents_map,
    test_agents, t_idx,
    test_agents_map,
    rows, item_idx, pending,
    assignments_df,
    arg_filter_key, arg_filter_values, arg_mode, filter_result,
    worker_ag_idx, worker_matching, worker_merged,
    heap, label_refs, all_ref, test_refs

vars ==
    << api_agents, api_labels, api_tests,
       endpoint_agents_df, labels_df, scheduled_tests_df,
       pc, label_agents, lbl_idx, ag_idx, matching_agents, label_agents_map,
       test_agents, t_idx, test_agents_map, rows, item_idx, pending,
       assignments_df,
       arg_filter_key, arg_filter_values, arg_mode, filter_result,
       worker_ag_idx, worker_matching, worker_merged,
       heap, label_refs, all_ref, test_refs >>

inputs ==
    << api_agents, api_labels, api_tests,
       endpoint_agents_df, labels_df, scheduled_tests_df >>

label_locals == << label_agents, lbl_idx, ag_idx, matching_agents >>
test_locals == << test_agents, t_idx >>
project_locals == << rows, item_idx, pending >>

\* the set objects build_test_agents_map works with: heap[r] is the content of
\* object r, label_refs names the object of each value of label_agents_map,
\* all_ref the object of all_agent_ids, test_refs the object of each value of
\* test_agents
objects == << heap, label_refs, all_ref, test_refs >>

\* the arguments and the result of a single call of agent_matches_filter
filter_call == << arg_filter_key, arg_filter_values, arg_mode, filter_result >>

\* per label, the position and the set of the scan of that label when every
\* label is scanned by a worker of its own, and whether the set has been merged
worker_locals == << worker_ag_idx, worker_matching, worker_merged >>

\* the variables of the calls made apart from main's correlation steps
other_calls == << filter_call, worker_locals >>

\* the data frames concatenated from the API's records
InitData(agents, labels, tests) ==
    /\ api_agents = agents
    /\ api_labels = labels
    /\ api_tests = tests
    /\ endpoint_agents_df = [i \in 1..Len(agents) |-> EndpointAgentRow(agents[i])]
    /\ labels_df = [i \in 1..Len(labels) |-> LabelRow(labels[i])]
    /\ scheduled_tests_df = [i \in 1..Len(tests) |-> ScheduledTestRow(tests[i])]

\* no call of agent_matches_filter of its own
NoFilterCall ==
    /\ arg_filter_key = << >>
    /\ arg_filter_values = << >>
    /\ arg_mode = << >>
    /\ filter_result = FALSE

\* no workers
NoWorkers ==
    /\ worker_ag_idx = << >>
    /\ worker_matching = << >>
    /\ worker_merged = << >>

\* nothing of the correlation steps has run
InitLocals ==
    /\ heap = << >>
    /\ label_refs = << >>
    /\ all_ref = 0
    /\ test_refs = << >>
    /\ label_agents = EmptyDict
    /\ lbl_idx = 0
    /\ ag_idx = 0
    /\ matching_agents = {}
    /\ label_agents_map = EmptyDict
    /\ test_agents = EmptyDict
    /\ t_idx = 0
    /\ test_agents_map = EmptyDict
    /\ rows = << >>
    /\ item_idx = 0
    /\ pending = {}
    /\ assignments_df = << >>

\* main at "Correlation Steps"
InitWith(agents, labels, tests) ==
    /\ InitData(agents, labels, tests)
    /\ pc = "main_labels"
    /\ InitLocals
    /\ NoFilterCall
    /\ NoWorkers

\* a run over a catalog and a test list from the pools
InitPipeline ==
    \E agents \in Inventories, labels \in Catalogs, tests \in TestLists :
        InitWith(agents, labels, tests)

\* a run over one label of WideLabels and no test
InitOneLabel ==
    \E agents \in Inventories, label \in WideLabels :
        InitWith(agents, << label >>, << >>)

\* a run over a catalog and a test list with a record that has no id
InitMissingId ==
    \E agents \in Inventories,
       labels \in {<< LabelNoId >>, << LabelBob, LabelNoId >>},
       tests \in {<< >>, << TestNoId >>, << TestPool[1], TestNoId >>} :
        InitWith(agents, labels, tests)

Init == InitPipeline \/ InitOneLabel \/ InitMissingId

(***************************************************************************)
(* build_label_agents_map, one action per loop step.                       *)
(***************************************************************************)
\* main: "if not labels_final_df.empty and not endpoint_agents_final_df.empty",
\* then the call (label_agents = {}) or label_agents_map = {}
MainLabels ==
    /\ pc = "main_labels"
    /\ IF labels_df # << >> /\ endpoint_agents_df # << >>
       THEN /\ pc' = "label_loop"
            /\ label_agents' = EmptyDict
            /\ lbl_idx' = 1
            /\ ag_idx' = 1
            /\ matching_agents' = {}
            /\ UNCHANGED label_agents_map
       ELSE /\ pc' = "main_tests"
            /\ label_agents_map' = EmptyDict
            /\ UNCHANGED label_locals
    /\ UNCHANGED << inputs, other_calls, objects, test_locals, test_agents_map, project_locals, assignments_df >>

\* ScanAgent with "label_agents[label_id] = matching_agents" inside the inner
\* loop, so that the label's entry is written after every agent
ScanAgent_StoresEachStep ==
    /\ pc = "label_loop"
    /\ lbl_idx <= Len(labels_df)
    /\ ag_idx <= Len(endpoint_agents_df)
    /\ matching_agents' =
           IF agent_matches_label(endpoint_agents_df[ag_idx], labels_df[lbl_idx])
           THEN matching_agents \cup {endpoint_agents_df[ag_idx].id}
           ELSE matching_agents
    /\ label_agents' = DictPut(label_agents, labels_df[lbl_idx].id, matching_agents')
    /\ ag_idx' = ag_idx + 1
    /\ UNCHANGED << inputs, other_calls, objects, pc, lbl_idx, label_agents_map, test_locals,
                    test_agents_map, project_locals, assignments_df >>

\* one step of the inner loop: "if agent_matches_label(...): matching_agents.add(...)"
ScanAgent ==
    /\ pc = "label_loop"
    /\ lbl_idx <= Len(labels_df)
    /\ ag_idx <= Len(endpoint_agents_df)
    /\ matching_agents' =
           IF agent_matches_label(endpoint_agents_df[ag_idx], labels_df[lbl_idx])
           THEN matching_agents \cup {endpoint_agents_df[ag_idx].id}
           ELSE matching_agents
    /\ ag_idx' = ag_idx + 1
    /\ UNCHANGED << inputs, other_calls, objects, pc, label_agents, lbl_idx, label_agents_map, test_locals,
                    test_agents_map, project_locals, assignments_df >>

\* StoreLabel that stores a label's set only when it is not empty
\* ("if matching_agents: label_agents[label_id] = matching_agents")
StoreLabel_SkipsEmpty ==
    /\ pc = "label_loop"
    /\ lbl_idx <= Len(labels_df)
    /\ ag_idx > Len(endpoint_agents_df)
    /\ label_agents' = IF matching_agents = {}
                       THEN label_agents
                       ELSE DictPut(label_agents, labels_df[lbl_idx].id, matching_agents)
    /\ lbl_idx' = lbl_idx + 1
    /\ ag_idx' = 1
    /\ matching_agents' = {}
    /\ UNCHANGED << inputs, other_calls, objects, pc, label_agents_map, test_locals, test_agents_map,
                    project_locals, assignments_df >>

\* the inner loop is over: "label_agents[label_id] = matching_agents", next label
StoreLabel ==
    /\ pc = "label_loop"
    /\ lbl_idx <= Len(labels_df)
    /\ ag_idx > Len(endpoint_agents_df)
    /\ label_agents' = DictPut(label_agents, labels_df[lbl_idx].id, matching_agents)
    /\ lbl_idx' = lbl_idx + 1
    /\ ag_idx' = 1
    /\ matching_agents' = {}
    /\ UNCHANGED << inputs, other_calls, objects, pc, label_agents_map, test_locals, test_agents_map,
                    project_locals, assignments_df >>

\* "return label_agents", bound to main's label_agents_map
ReturnLabels ==
    /\ pc = "label_loop"
    /\ lbl_idx > Len(labels_df)
    /\ label_agents_map' = label_agents
    /\ pc' = "main_tests"
    /\ UNCHANGED << inputs, other_calls, objects, label_locals, test_locals, test_agents_map, project_locals,
                    assignments_df >>

(***************************************************************************)
(* build_test_agents_map, one action per test row.                         *)
(***************************************************************************)
\* set(endpoint_agents_df["id"].unique())
all_agent_ids(agents_df) == {agents_df[i].id : i \in 1..Len(agents_df)}

\* assigned_ids where a listed label id that is not in the index voids the test
assigned_ids_UnknownLabelVoids(test_row, lam, all_ids) ==
    LET sel_type == test_row.agentSelectorType
        label_ids == Range(SplitStripNonEmpty(test_row.assignedLabelsRaw))
    IN  IF sel_type = SelAllAgents THEN all_ids
        ELSE IF sel_type = SelSpecificAgents
        THEN Range(SplitStripNonEmpty(test_row.assignedAgentsRaw))
        ELSE IF sel_type = SelAgentLabels
        THEN IF \E l \in label_ids : ~DictHas(lam, l) THEN {}
             ELSE UNION {DictGet(lam, lid) : lid \in label_ids}
        ELSE {}

\* assigned_ids where all-agents is narrowed to the agents the test lists
assigned_ids_AllAgentsListed(test_row, lam, all_ids) ==
    LET sel_type == test_row.agentSelectorType
    IN  IF sel_type = SelAllAgents
        THEN all_ids \cap Range(SplitStripNonEmpty(test_row.assignedAgentsRaw))
        ELSE IF sel_type = SelSpecificAgents
        THEN Range(SplitStripNonEmpty(test_row.assignedAgentsRaw))
        ELSE IF sel_type = SelAgentLabels
        THEN UNION {DictGet(lam, lid) :
                       lid \in {l \in Range(SplitStripNonEmpty(test_row.assignedLabelsRaw)) :
                                   DictHas(lam, l)}}
        ELSE {}

\* assigned_ids where specific-agents keeps the known agent ids only
assigned_ids_SpecificValidated(test_row, lam, all_ids) ==
    LET sel_type == test_row.agentSelectorType
    IN  IF sel_type = SelAllAgents THEN all_ids
        ELSE IF sel_type = SelSpecificAgents
        THEN Range(SplitStripNonEmpty(test_row.assignedAgentsRaw)) \cap all_ids
        ELSE IF sel_type = SelAgentLabels
        THEN UNION {DictGet(lam, lid) :
                       lid \in {l \in Range(SplitStripNonEmpty(test_row.assignedLabelsRaw)) :
                                   DictHas(lam, l)}}
        ELSE {}

\* assigned_ids where any other selector type falls back to every agent
assigned_ids_FailOpen(test_row, lam, all_ids) ==
    LET sel_type == test_row.agentSelectorType
    IN  IF sel_type = SelSpecificAgents
        THEN Range(SplitStripNonEmpty(test_row.assignedAgentsRaw))
        ELSE IF sel_type = SelAgentLabels
        THEN UNION {DictGet(lam, lid) :
                       lid \in {l \in Range(SplitStripNonEmpty(test_row.assignedLabelsRaw)) :
                                   DictHas(lam, l)}}
        ELSE all_ids

\* assigned_ids of one test row, after the if / elif chain
assigned_ids(test_row, lam, all_ids) ==
    LET sel_type == test_row.agentSelectorType
    IN  IF sel_type = SelAllAgents THEN all_ids
        ELSE IF sel_type = SelSpecificAgents
        THEN Range(SplitStripNonEmpty(test_row.assignedAgentsRaw))
        ELSE IF sel_type = SelAgentLabels
        THEN UNION {DictGet(lam, lid) :
                       lid \in {l \in Range(SplitStripNonEmpty(test_row.assignedLabelsRaw)) :
                                   DictHas(lam, l)}}
        ELSE {}

\* main: "if not scheduled_tests_final_df.empty and not endpoint_agents_final_df.empty",
\* then the call (test_agents = {}) or the empty assignments_df
\* MainTests that asks only for a non-empty test list
\* ("if not scheduled_tests_final_df.empty:")
MainTests_IgnoresInventory ==
    /\ pc = "main_tests"
    /\ IF scheduled_tests_df # << >>
       THEN /\ pc' = "test_loop"
            /\ test_agents' = EmptyDict
            /\ t_idx' = 1
            /\ heap' = [i \in 1..Len(label_agents_map) |-> label_agents_map[i].val]
                           \o << all_agent_ids(endpoint_agents_df) >>
            /\ label_refs' = [i \in 1..Len(label_agents_map) |->
                                 [key |-> label_agents_map[i].key, val |-> i]]
            /\ all_ref' = Len(label_agents_map) + 1
            /\ test_refs' = EmptyDict
            /\ UNCHANGED assignments_df
       ELSE /\ pc' = "done"
            /\ assignments_df' = << >>
            /\ UNCHANGED << test_locals, objects >>
    /\ UNCHANGED << inputs, other_calls, label_locals, label_agents_map, test_agents_map,
                    project_locals >>

MainTests ==
    /\ pc = "main_tests"
    /\ IF scheduled_tests_df # << >> /\ endpoint_agents_df # << >>
       THEN /\ pc' = "test_loop"
            /\ test_agents' = EmptyDict
            /\ t_idx' = 1
            /\ heap' = [i \in 1..Len(label_agents_map) |-> label_agents_map[i].val]
                           \o << all_agent_ids(endpoint_agents_df) >>
            /\ label_refs' = [i \in 1..Len(label_agents_map) |->
                                 [key |-> label_agents_map[i].key, val |-> i]]
            /\ all_ref' = Len(label_agents_map) + 1
            /\ test_refs' = EmptyDict
            /\ UNCHANGED assignments_df
       ELSE /\ pc' = "done"
            /\ assignments_df' = << >>
            /\ UNCHANGED << test_locals, objects >>
    /\ UNCHANGED << inputs, other_calls, label_locals, label_agents_map, test_agents_map,
                    project_locals >>

\* the dict whose values are the contents of the objects refs names
DictOfObjects(refs, h) ==
    [i \in 1..Len(refs) |-> [key |-> refs[i].key, val |-> h[refs[i].val]]]

\* assigned_object where the union of an agent-labels test is accumulated into
\* the set of one of the labels it lists ("assigned_ids = label_agents_map[lid]")
assigned_object_UnionIntoLabelSet(h, test_row, lrefs, aref) ==
    LET sel_type == test_row.agentSelectorType
        known == {l \in Range(SplitStripNonEmpty(test_row.assignedLabelsRaw)) :
                     DictHas(lrefs, l)}
    IN  IF sel_type = SelAllAgents
        THEN [heap |-> Append(h, h[aref]), ref |-> Len(h) + 1]
        ELSE IF sel_type = SelSpecificAgents
        THEN [heap |-> Append(h, Range(SplitStripNonEmpty(test_row.assignedAgentsRaw))),
              ref |-> Len(h) + 1]
        ELSE IF sel_type = SelAgentLabels /\ known # {}
        THEN LET target == DictGet(lrefs, CHOOSE l \in known : TRUE)
             IN  [heap |-> [h EXCEPT
                               ![target] = UNION {h[DictGet(lrefs, lid)] : lid \in known}],
                  ref |-> target]
        ELSE [heap |-> Append(h, {}), ref |-> Len(h) + 1]

\* assigned_object where an all-agents test is bound to all_agent_ids itself
\* ("assigned_ids = all_agent_ids")
assigned_object_AllAgentsShared(h, test_row, lrefs, aref) ==
    LET sel_type == test_row.agentSelectorType
        known == {l \in Range(SplitStripNonEmpty(test_row.assignedLabelsRaw)) :
                     DictHas(lrefs, l)}
    IN  IF sel_type = SelAllAgents
        THEN [heap |-> h, ref |-> aref]
        ELSE IF sel_type = SelSpecificAgents
        THEN [heap |-> Append(h, Range(SplitStripNonEmpty(test_row.assignedAgentsRaw))),
              ref |-> Len(h) + 1]
        ELSE IF sel_type = SelAgentLabels
        THEN [heap |-> Append(h, UNION {h[DictGet(lrefs, lid)] : lid \in known}),
              ref |-> Len(h) + 1]
        ELSE [heap |-> Append(h, {}), ref |-> Len(h) + 1]

\* the objects after one pass of the loop body, and the object assigned_ids is
\* bound to at its end. "assigned_ids = set()" makes a new object;
\* "set(all_agent_ids)" and the set comprehension make a new object each, to
\* which assigned_ids is bound instead (the empty one is dropped); "|=" updates
\* the object assigned_ids is bound to, here the new one, and only reads
\* label_agents_map[lid]
assigned_object(h, test_row, lrefs, aref) ==
    LET sel_type == test_row.agentSelectorType
        known == {l \in Range(SplitStripNonEmpty(test_row.assignedLabelsRaw)) :
                     DictHas(lrefs, l)}
    IN  IF sel_type = SelAllAgents
        THEN [heap |-> Append(h, h[aref]), ref |-> Len(h) + 1]
        ELSE IF sel_type = SelSpecificAgents
        THEN [heap |-> Append(h, Range(SplitStripNonEmpty(test_row.assignedAgentsRaw))),
              ref |-> Len(h) + 1]
        ELSE IF sel_type = SelAgentLabels
        THEN [heap |-> Append(h, UNION {h[DictGet(lrefs, lid)] : lid \in known}),
              ref |-> Len(h) + 1]
        ELSE [heap |-> Append(h, {}), ref |-> Len(h) + 1]

\* one pass of the loop body: "test_agents[t_id] = assigned_ids"; the values of
\* label_agents_map are what their objects hold after the pass
ResolveTest ==
    /\ pc = "test_loop"
    /\ t_idx <= Len(scheduled_tests_df)
    /\ test_agents' =
           DictPut(test_agents, scheduled_tests_df[t_idx].testID,
                   assigned_ids(scheduled_tests_df[t_idx], label_agents_map,
                                all_agent_ids(endpoint_agents_df)))
    /\ LET after == assigned_object(heap, scheduled_tests_df[t_idx], label_refs, all_ref)
       IN  /\ heap' = after.heap
           /\ test_refs' = DictPut(test_refs, scheduled_tests_df[t_idx].testID, after.ref)
           /\ label_agents_map' = DictOfObjects(label_refs, after.heap)
    /\ t_idx' = t_idx + 1
    /\ UNCHANGED << inputs, other_calls, pc, label_locals, label_refs, all_ref,
                    test_agents_map, project_locals, assignments_df >>

\* "return test_agents", bound to main's test_agents_map; then the call of
\* build_test_agent_assignment_df (rows = [])
ReturnTests ==
    /\ pc = "test_loop"
    /\ t_idx > Len(scheduled_tests_df)
    /\ test_agents_map' = test_agents
    /\ pc' = "project_item"
    /\ rows' = << >>
    /\ item_idx' = 1
    /\ pending' = {}
    /\ UNCHANGED << inputs, other_calls, objects, label_locals, label_agents_map, test_locals, assignments_df >>

(***************************************************************************)
(* build_test_agent_assignment_df, one action per loop step.               *)
(***************************************************************************)
agent_lookup(agents_df) ==
    ToDict([i \in 1..Len(agents_df) |-> << agents_df[i].id, agents_df[i].name >>])

test_lookup(tests_df) ==
    ToDict([i \in 1..Len(tests_df) |-> << tests_df[i].testID, tests_df[i].testName >>])

\* AssignmentRow with the agent id in place of a name that is not found
AssignmentRow_NameDefaultsToId(test_id, ag_id, tests_df, agents_df) ==
    [testID |-> test_id,
     testName |-> DictGetDefault(test_lookup(tests_df), test_id, test_id),
     agentID |-> ag_id,
     agentName |-> DictGetDefault(agent_lookup(agents_df), ag_id, ag_id)]

\* the dict appended to rows for (test_id, ag_id)
AssignmentRow(test_id, ag_id, tests_df, agents_df) ==
    [testID |-> test_id,
     testName |-> DictGetDefault(test_lookup(tests_df), test_id, << >>),
     agentID |-> ag_id,
     agentName |-> DictGetDefault(agent_lookup(agents_df), ag_id, << >>)]

\* "for test_id, agent_ids in test_agents_map.items()": the next item, in
\* insertion order
StartItem ==
    /\ pc = "project_item"
    /\ item_idx <= Len(test_agents_map)
    /\ pending' = test_agents_map[item_idx].val
    /\ pc' = "project_rows"
    /\ UNCHANGED << inputs, other_calls, objects, label_locals, label_agents_map, test_locals, test_agents_map,
                    rows, item_idx, assignments_df >>

\* "for ag_id in agent_ids: rows.append(...)": a set of str is iterated in an
\* order the language does not fix, so any remaining member may come next
EmitRow ==
    /\ pc = "project_rows"
    /\ \E ag_id \in pending :
           /\ rows' = Append(rows, AssignmentRow(test_agents_map[item_idx].key, ag_id,
                                                 scheduled_tests_df, endpoint_agents_df))
           /\ pending' = pending \ {ag_id}
    /\ UNCHANGED << inputs, other_calls, objects, pc, label_locals, label_agents_map, test_locals,
                    test_agents_map, item_idx, assignments_df >>

\* the set is exhausted: next item
EndItem ==
    /\ pc = "project_rows"
    /\ pending = {}
    /\ item_idx' = item_idx + 1
    /\ pc' = "project_item"
    /\ UNCHANGED << inputs, other_calls, objects, label_locals, label_agents_map, test_locals, test_agents_map,
                    rows, pending, assignments_df >>

\* "return pd.DataFrame(rows)", bound to main's assignments_df
ReturnAssignments ==
    /\ pc = "project_item"
    /\ item_idx > Len(test_agents_map)
    /\ assignments_df' = rows
    /\ pc' = "done"
    /\ UNCHANGED << inputs, other_calls, objects, label_locals, label_agents_map, test_locals, test_agents_map,
                    project_locals >>

Next ==
    \/ MainLabels
    \/ ScanAgent
    \/ StoreLabel
    \/ ReturnLabels
    \/ MainTests
    \/ ResolveTest
    \/ ReturnTests
    \/ StartItem
    \/ EmitRow
    \/ EndItem
    \/ ReturnAssignments

Spec == Init /\ [][Next]_vars

(***************************************************************************)
(* A single call of agent_matches_filter: the row of one agent, and a key, *)
(* a value list and a mode as the caller passes them.                      *)
(***************************************************************************)
MaxValues == 2

BobCapital == << "B", "o", "b" >>
Bobby == << "b", "o", "b", "b", "y" >>
Bo == << "b", "o" >>
Carol == << " ", "c", "a", "r", "o", "l", " " >>
IpBadOctet == << "1", "0", ".", "0", ".", "0", ".", "9", "9", "9" >>
Ip228 == << "1", "0", ".", "2", "2", "8", ".", "5", ".", "1", "0", "0" >>
Ip228High == << "1", "0", ".", "2", "2", "8", ".", "1", "2", "8", ".", "1" >>
Ip192One == << "1", "9", "2", ".", "1", "6", "8", ".", "1", ".", "1" >>
NotACidr == << "n", "o", "t", "-", "a", "-", "c", "i", "d", "r" >>
Net17 == << "1", "0", ".", "2", "2", "8", ".", "0", ".", "0", "/", "1", "7" >>
Net10Host == << "1", "0", ".", "0", ".", "0", ".", "1", "/", "8" >>
NetBadPrefix == << "1", "0", ".", "0", ".", "0", ".", "0", "/", "3", "3" >>
Net192 == << "1", "9", "2", ".", "1", "6", "8", ".", "1", ".", "0", "/", "2", "4" >>
PaloAlto == << "P", "a", "l", "o", "A", "l", "t", "o", "-", "G", "P" >>
Palo == << "p", "a", "l", "o" >>
AnyConnect == << "A", "N", "Y", "C", "O", "N", "N", "E", "C", "T" >>
GatewayOne == << "g", "a", "t", "e", "w", "a", "y", "=", "1" >>
IpGateway == << "1", ".", "2", ".", "3", ".", "4" >>
IpClient == << "1", "0", ".", "1", ".", "2", ".", "3" >>
NetClient == << "1", "0", ".", "1", ".", "0", ".", "0", "/", "1", "6" >>
EthernetUpper == << "E", "T", "H", "E", "R", "N", "E", "T" >>
Eth == << "e", "t", "h" >>
KeyUsernameMixed == << " ", "U", "s", "e", "r", "n", "a", "m", "e", " " >>
KeyConnectionUpper == << "C", "O", "N", "N", "E", "C", "T", "I", "O", "N" >>
KeyHostname == << "h", "o", "s", "t", "n", "a", "m", "e" >>
ModeInUpper == << "I", "N" >>
ModeNotIn == << "n", "o", "t", "_", "i", "n" >>
ModeInBlank == << "i", "n", " " >>

Agent4 ==
    [id |-> A9, name |-> NamePc1, userNames |-> {BobCapital, Bobby},
     ipAddresses |-> {IpBadOctet}, hardwareTypes |-> {EthernetLower},
     vpnProfiles |-> << [vpnType |-> PaloAlto, vpnGatewayAddress |-> IpGateway,
                         vpnClientAddresses |-> << IpClient >>,
                         vpnClientNetworkRange |-> << NetClient >>],
                        [vpnType |-> CiscoVpn, vpnGatewayAddress |-> Empty,
                         vpnClientAddresses |-> << >>,
                         vpnClientNetworkRange |-> << >>] >>]

Agent5 ==
    [id |-> A1, name |-> NamePc2, userNames |-> {Carol, Empty},
     ipAddresses |-> {IpBadOctet, Ip228, IpPublic}, hardwareTypes |-> {Wireless, Empty},
     vpnProfiles |-> << >>]

Agent6 ==
    [id |-> A3, name |-> NamePc3, userNames |-> {Alice, Bob},
     ipAddresses |-> {Ip192One, Ip228High}, hardwareTypes |-> {EthernetUpper},
     vpnProfiles |-> << [vpnType |-> Empty, vpnGatewayAddress |-> Empty,
                         vpnClientAddresses |-> << >>,
                         vpnClientNetworkRange |-> << >>] >>]

FilterAgents == {Agent1, Agent2, Agent3, Agent4, Agent5, Agent6}

FilterKeys ==
    {KeyAgentId, KeyUsername, KeyUsernameMixed, KeyLocalNetwork, KeyVpnVendor,
     KeyVpnType, KeyConnection, KeyConnectionUpper, KeyHostname, Empty}

FilterModes == {ModeIn, ModeInUpper, ModeNotIn, ModeInBlank, Empty}

\* values a clause of the key may list: stripped and not empty, as
\* agent_matches_label parses them
ValuePool(key) ==
    LET k == Strip(Lower(key))
    IN  IF k = KeyAgentId THEN << A1, A3, A9 >>
        ELSE IF k = KeyUsername THEN << Bob, BobCapital, Bo, Alice >>
        ELSE IF k = KeyLocalNetwork
        THEN << NotACidr, Net10, Net17, Ip10, Net10Host, NetBadPrefix, Net192 >>
        ELSE IF k = KeyVpnVendor THEN << CiscoUpper, AnyConnect, KeyVpnType, Palo, GatewayOne >>
        ELSE IF k = KeyConnection THEN << EthernetLower, EthernetUpper, Wireless, Eth >>
        ELSE << A1, Bob, Net10, CiscoUpper, EthernetLower >>

\* the caller's position before the call, with the arguments it passes
InitFilter ==
    \E agent \in FilterAgents, key \in FilterKeys, m \in FilterModes :
        \E values \in DistinctSeqs(ValuePool(key), MaxValues) :
            /\ InitData(<< agent >>, << >>, << >>)
            /\ pc = "filter_call"
            /\ InitLocals
            /\ arg_filter_key = key
            /\ arg_filter_values = values
            /\ arg_mode = m
            /\ filter_result = FALSE
            /\ NoWorkers

\* result = agent_matches_filter(agent_row, filter_key, filter_values, mode)
CallFilter ==
    /\ pc = "filter_call"
    /\ filter_result' = agent_matches_filter(endpoint_agents_df[1], arg_filter_key,
                                             arg_filter_values, arg_mode)
    /\ pc' = "filter_done"
    /\ UNCHANGED << inputs, objects, label_locals, label_agents_map, test_locals, test_agents_map,
                    project_locals, assignments_df, arg_filter_key, arg_filter_values,
                    arg_mode, worker_locals >>

NextFilter == CallFilter

SpecFilter == InitFilter /\ [][NextFilter]_vars

(***************************************************************************)
(* build_label_agents_map with the body of its loop over the labels run by *)
(* one worker per label: every worker has its own matching_agents and its  *)
(* own position in the inventory, the workers' steps interleave in any     *)
(* order, and a worker's set is put into label_agents once its scan has    *)
(* ended.                                                                  *)
(***************************************************************************)
\* the dict build_label_agents_map returns, computed label by label
RECURSIVE build_label_agents_map(_, _)
build_label_agents_map(labels, agents) ==
    IF labels = << >> THEN EmptyDict
    ELSE LET lbl_row == labels[Len(labels)]
         IN  DictPut(build_label_agents_map(SubSeq(labels, 1, Len(labels) - 1), agents),
                     lbl_row.id,
                     {agents[a].id : a \in
                         {b \in 1..Len(agents) : agent_matches_label(agents[b], lbl_row)}})

InitWorkers ==
    \E agents \in Inventories \ {<< >>}, labels \in Catalogs \ {<< >>} :
        /\ InitData(agents, labels, << >>)
        /\ pc = "workers"
        /\ InitLocals
        /\ NoFilterCall
        /\ worker_ag_idx = [w \in 1..Len(labels) |-> 1]
        /\ worker_matching = [w \in 1..Len(labels) |-> {}]
        /\ worker_merged = [w \in 1..Len(labels) |-> FALSE]

\* WorkerScan with one matching_agents for all workers (the set of the first)
WorkerScan_SharedSet(w) ==
    /\ pc = "workers"
    /\ worker_ag_idx[w] <= Len(endpoint_agents_df)
    /\ worker_matching' =
           IF agent_matches_label(endpoint_agents_df[worker_ag_idx[w]], labels_df[w])
           THEN [worker_matching EXCEPT
                    ![1] = @ \cup {endpoint_agents_df[worker_ag_idx[w]].id}]
           ELSE worker_matching
    /\ worker_ag_idx' = [worker_ag_idx EXCEPT ![w] = @ + 1]
    /\ UNCHANGED << inputs, objects, pc, label_locals, label_agents_map, test_locals,
                    test_agents_map, project_locals, assignments_df, filter_call,
                    worker_merged >>

\* worker w, one step of the inner loop over the agents
WorkerScan(w) ==
    /\ pc = "workers"
    /\ worker_ag_idx[w] <= Len(endpoint_agents_df)
    /\ worker_matching' =
           IF agent_matches_label(endpoint_agents_df[worker_ag_idx[w]], labels_df[w])
           THEN [worker_matching EXCEPT
                    ![w] = @ \cup {endpoint_agents_df[worker_ag_idx[w]].id}]
           ELSE worker_matching
    /\ worker_ag_idx' = [worker_ag_idx EXCEPT ![w] = @ + 1]
    /\ UNCHANGED << inputs, objects, pc, label_locals, label_agents_map, test_locals,
                    test_agents_map, project_locals, assignments_df, filter_call,
                    worker_merged >>

\* worker w has ended its scan: "label_agents[label_id] = matching_agents"
WorkerMerge(w) ==
    /\ pc = "workers"
    /\ worker_ag_idx[w] > Len(endpoint_agents_df)
    /\ ~worker_merged[w]
    /\ label_agents' = DictPut(label_agents, labels_df[w].id, worker_matching[w])
    /\ worker_merged' = [worker_merged EXCEPT ![w] = TRUE]
    /\ UNCHANGED << inputs, objects, pc, lbl_idx, ag_idx, matching_agents, label_agents_map,
                    test_locals, test_agents_map, project_locals, assignments_df,
                    filter_call, worker_ag_idx, worker_matching >>

\* every worker's set is merged: "return label_agents"
WorkersReturn ==
    /\ pc = "workers"
    /\ \A w \in 1..Len(labels_df) : worker_merged[w]
    /\ label_agents_map' = label_agents
    /\ pc' = "workers_done"
    /\ UNCHANGED << inputs, objects, label_locals, test_locals, test_agents_map, project_locals,
                    assignments_df, filter_call, worker_locals >>

NextWorkers ==
    \/ \E w \in 1..Len(labels_df) : WorkerScan(w)
    \/ \E w \in 1..Len(labels_df) : WorkerMerge(w)
    \/ WorkersReturn

SpecWorkers == InitWorkers /\ [][NextWorkers]_vars

(***************************************************************************)
(* Vocabulary of the properties.                                           *)
(***************************************************************************)
\* build_label_agents_map has run and returned
LabelIndexBuilt ==
    pc = "main_tests" /\ labels_df # << >> /\ endpoint_agents_df # << >>

\* build_test_agents_map has run and returned
TestMapBuilt ==
    pc = "project_item" /\ item_idx = 1

\* build_test_agent_assignment_df has run and returned
AssignmentsBuilt ==
    pc = "done" /\ scheduled_tests_df # << >> /\ endpoint_agents_df # << >>

InventoryIds == {api_agents[i].id : i \in 1..Len(api_agents)}

\* the label's matchType, whatever its case and surrounding blanks
ModeText(label_row) == Strip(Lower(label_row.matchType))

IsAndLabel(label_row) == ModeText(label_row) \in {MatchAnd, << >>}
IsOrLabel(label_row) == ModeText(label_row) = MtOr

\* the agent rows for which clause i of the label's clause list evaluates true
ClauseTrue(agent_row, label_row, i) ==
    LET f == filters_to_check(label_row)[i]
    IN  agent_matches_filter(agent_row, f.key, f.values, f.mode)

NumClauses(label_row) == Len(filters_to_check(label_row))

\* ids of the agents of the inventory that satisfy every / some clause
IdsMatchingAll(label_row) ==
    {endpoint_agents_df[a].id : a \in
        {b \in 1..Len(endpoint_agents_df) :
            \A i \in 1..NumClauses(label_row) :
                ClauseTrue(endpoint_agents_df[b], label_row, i)}}

IdsMatchingSome(label_row) ==
    {endpoint_agents_df[a].id : a \in
        {b \in 1..Len(endpoint_agents_df) :
            \E i \in 1..NumClauses(label_row) :
                ClauseTrue(endpoint_agents_df[b], label_row, i)}}

(***************************************************************************)
(* C1: once build_label_agents_map has returned, the set of every label    *)
(* whose match mode is AND holds exactly the ids of the agents for which   *)
(* every clause of the label's clause list evaluates true; an AND label    *)
(* with an empty clause list holds every agent id of the inventory.        *)
(***************************************************************************)
C1_AndLabelMatchesAllClauses ==
    LabelIndexBuilt =>
        \A l \in 1..Len(labels_df) :
            IsAndLabel(labels_df[l]) =>
                /\ DictHas(label_agents_map, labels_df[l].id)
                /\ DictGet(label_agents_map, labels_df[l].id) = IdsMatchingAll(labels_df[l])
                /\ NumClauses(labels_df[l]) = 0 =>
                       DictGet(label_agents_map, labels_df[l].id) = InventoryIds

\* an AND label with two clauses holds one agent and leaves out another agent
\* that satisfies one of its clauses only, and an AND label without clauses
\* holds both
C1_Witness ==
    /\ LabelIndexBuilt
    /\ \E l \in 1..Len(labels_df) :
           /\ IsAndLabel(labels_df[l])
           /\ NumClauses(labels_df[l]) = 2
           /\ DictGet(label_agents_map, labels_df[l].id) # {}
           /\ IdsMatchingSome(labels_df[l]) \ DictGet(label_agents_map, labels_df[l].id) # {}
    /\ \E l \in 1..Len(labels_df) :
           /\ IsAndLabel(labels_df[l])
           /\ NumClauses(labels_df[l]) = 0
           /\ Cardinality(DictGet(label_agents_map, labels_df[l].id)) = 2

(***************************************************************************)
(* C2: once build_label_agents_map has returned, the set of every label    *)
(* whose match mode is OR holds exactly the ids of the agents for which at *)
(* least one clause of the label's clause list evaluates true; an OR label *)
(* with an empty clause list has an entry, and the entry is the empty set. *)
(***************************************************************************)
C2_OrLabelMatchesSomeClause ==
    LabelIndexBuilt =>
        \A l \in 1..Len(labels_df) :
            IsOrLabel(labels_df[l]) =>
                /\ DictHas(label_agents_map, labels_df[l].id)
                /\ DictGet(label_agents_map, labels_df[l].id) = IdsMatchingSome(labels_df[l])
                /\ NumClauses(labels_df[l]) = 0 =>
                       DictGet(label_agents_map, labels_df[l].id) = {}

\* an OR label with two clauses holds an agent that fails one of them and
\* leaves out another agent, and an OR label without clauses has an empty set
C2_Witness ==
    /\ LabelIndexBuilt
    /\ \E l \in 1..Len(labels_df) :
           /\ IsOrLabel(labels_df[l])
           /\ NumClauses(labels_df[l]) = 2
           /\ DictGet(label_agents_map, labels_df[l].id) \ IdsMatchingAll(labels_df[l]) # {}
           /\ InventoryIds \ DictGet(label_agents_map, labels_df[l].id) # {}
    /\ \E l \in 1..Len(labels_df) :
           /\ IsOrLabel(labels_df[l])
           /\ NumClauses(labels_df[l]) = 0
           /\ DictHas(label_agents_map, labels_df[l].id)
           /\ DictGet(label_agents_map, labels_df[l].id) = {}

(***************************************************************************)
(* C3: a label whose matchType is neither empty nor "and" nor "or" (after  *)
(* lower-casing and trimming) is matched as an AND label with the same     *)
(* clauses: its set holds exactly the agents that satisfy every clause.    *)
(***************************************************************************)
C3_UnrecognizedModeIsAnd ==
    LabelIndexBuilt =>
        \A l \in 1..Len(labels_df) :
            ~IsAndLabel(labels_df[l]) /\ ~IsOrLabel(labels_df[l]) =>
                DictGet(label_agents_map, labels_df[l].id) = IdsMatchingAll(labels_df[l])

(***************************************************************************)
(* C4: a clause whose value set is empty cannot change a label's result:   *)
(* the set of every label is the set its match mode gives over the clauses *)
(* that have at least one value, so an AND label holds every agent that    *)
(* satisfies all of its clauses that have values.                          *)
(***************************************************************************)
HasValues(f) == f.values # << >>

\* the label's result over its clauses with values only
IdsOverClausesWithValues(label_row) ==
    LET fs == SelectSeq(filters_to_check(label_row), HasValues)
    IN  {endpoint_agents_df[a].id : a \in
            {b \in 1..Len(endpoint_agents_df) :
                Evaluate(match_type(label_row),
                         [i \in 1..Len(fs) |->
                             agent_matches_filter(endpoint_agents_df[b], fs[i].key,
                                                  fs[i].values, fs[i].mode)])}}

C4_EmptyValueClauseIsVacuous ==
    LabelIndexBuilt =>
        \A l \in 1..Len(labels_df) :
            DictGet(label_agents_map, labels_df[l].id)
                = IdsOverClausesWithValues(labels_df[l])

(***************************************************************************)
(* Vocabulary of the properties about tests: the API's test records.       *)
(***************************************************************************)
KnownSelectors == {SelAllAgents, SelSpecificAgents, SelAgentLabels}

TestsOfType(sel) == {t \in 1..Len(api_tests) : api_tests[t].agentSelectorType = sel}

ResolvedIds(t) == DictGet(test_agents_map, api_tests[t].testId)

\* the label ids a test lists that are keys of the label index
KnownLabelIds(t) == Range(api_tests[t].endpointAgentLabels) \cap DictKeys(label_agents_map)

RowsOfTest(t) ==
    {r \in 1..Len(assignments_df) : assignments_df[r].testID = api_tests[t].testId}

(***************************************************************************)
(* C5: once build_test_agents_map has returned, every agent-labels test is *)
(* resolved to the union of the label index's sets over the label ids the  *)
(* test lists that are keys of the index; the other listed ids add nothing.*)
(***************************************************************************)
C5_AgentLabelsIsUnionOfKnownLabels ==
    TestMapBuilt =>
        \A t \in TestsOfType(SelAgentLabels) :
            /\ DictHas(test_agents_map, api_tests[t].testId)
            /\ ResolvedIds(t) = UNION {DictGet(label_agents_map, l) : l \in KnownLabelIds(t)}

\* a test that lists one known and some unknown label id is resolved to the
\* known label's non-empty set
C5_Witness ==
    /\ TestMapBuilt
    /\ \E t \in TestsOfType(SelAgentLabels) :
           /\ Cardinality(KnownLabelIds(t)) = 1
           /\ Range(api_tests[t].endpointAgentLabels) \ KnownLabelIds(t) # {}
           /\ ResolvedIds(t) # {}
           /\ \A l \in KnownLabelIds(t) : ResolvedIds(t) = DictGet(label_agents_map, l)

(***************************************************************************)
(* C6: once build_test_agents_map has returned, every all-agents test is   *)
(* resolved to the set of all agent ids of the inventory, whatever the     *)
(* label index and the test's own agent and label lists hold.              *)
(***************************************************************************)
C6_AllAgentsIsInventory ==
    TestMapBuilt =>
        \A t \in TestsOfType(SelAllAgents) :
            /\ DictHas(test_agents_map, api_tests[t].testId)
            /\ ResolvedIds(t) = InventoryIds

\* an all-agents test that lists one agent and one label of a non-empty index
\* is resolved to an inventory of two agents
C6_Witness ==
    /\ TestMapBuilt
    /\ label_agents_map # EmptyDict
    /\ \E t \in TestsOfType(SelAllAgents) :
           /\ api_tests[t].agents # << >>
           /\ KnownLabelIds(t) # {}
           /\ Cardinality(ResolvedIds(t)) = 2
           /\ ResolvedIds(t) # Range(api_tests[t].agents)

(***************************************************************************)
(* C7: every specific-agents test is resolved to exactly the agent ids it  *)
(* lists, known to the inventory or not, and each of them has a row in the *)
(* assignment list.                                                        *)
(***************************************************************************)
C7_SpecificAgentsVerbatim ==
    /\ TestMapBuilt =>
           \A t \in TestsOfType(SelSpecificAgents) :
               /\ DictHas(test_agents_map, api_tests[t].testId)
               /\ ResolvedIds(t) = Range(api_tests[t].agents)
    /\ AssignmentsBuilt =>
           \A t \in TestsOfType(SelSpecificAgents) :
               \A a \in Range(api_tests[t].agents) :
                   \E r \in RowsOfTest(t) : assignments_df[r].agentID = a

\* the assignment list has a row of a specific-agents test for an agent id
\* that no agent of the inventory has
C7_Witness ==
    /\ AssignmentsBuilt
    /\ \E t \in TestsOfType(SelSpecificAgents) :
           \E r \in RowsOfTest(t) : assignments_df[r].agentID \notin InventoryIds

(***************************************************************************)
(* C8: a test whose selector type is none of all-agents, specific-agents,  *)
(* agent-labels has an entry in the test map, the entry is the empty set,  *)
(* and the test has no assignment row; every test of the run has an entry. *)
(***************************************************************************)
UnknownSelectorTests ==
    {t \in 1..Len(api_tests) : api_tests[t].agentSelectorType \notin KnownSelectors}

C8_UnknownSelectorIsEmpty ==
    /\ TestMapBuilt =>
           /\ DictKeys(test_agents_map) = {api_tests[t].testId : t \in 1..Len(api_tests)}
           /\ \A t \in UnknownSelectorTests : ResolvedIds(t) = {}
    /\ AssignmentsBuilt => \A t \in UnknownSelectorTests : RowsOfTest(t) = {}

\* a run whose first test has an unrecognized selector type ends with rows of
\* its second test only
C8_Witness ==
    /\ AssignmentsBuilt
    /\ Len(api_tests) = 2
    /\ 1 \in UnknownSelectorTests
    /\ api_tests[1].agentSelectorType # << >>
    /\ RowsOfTest(1) = {}
    /\ RowsOfTest(2) # {}

(***************************************************************************)
(* C9: the assignment list is sorted by testID and then by agentID.        *)
(***************************************************************************)
RowBefore(r1, r2) ==
    \/ StrLess(r1.testID, r2.testID)
    \/ r1.testID = r2.testID /\ StrLess(r1.agentID, r2.agentID)

C9_AssignmentsSorted ==
    AssignmentsBuilt =>
        \A r \in 1..(Len(assignments_df) - 1) :
            RowBefore(assignments_df[r], assignments_df[r + 1])

(***************************************************************************)
(* C10: the assignment list has exactly one row for each pair of a test id *)
(* of the test map and an agent id of that test's set, and no other row;   *)
(* testName is the test's name, agentName is the name of the agent of the  *)
(* inventory with that id, or the empty string when there is none.         *)
(***************************************************************************)
ResolvedPairs ==
    UNION {{<< test_agents_map[i].key, a >> : a \in test_agents_map[i].val} :
              i \in 1..Len(test_agents_map)}

AgentNameOf(ag_id) ==
    IF ag_id \in InventoryIds
    THEN api_agents[CHOOSE a \in 1..Len(api_agents) : api_agents[a].id = ag_id].name
    ELSE << >>

TestNameOf(test_id) ==
    api_tests[CHOOSE t \in 1..Len(api_tests) : api_tests[t].testId = test_id].testName

C10_OneRowPerResolvedPair ==
    AssignmentsBuilt =>
        /\ {<< assignments_df[r].testID, assignments_df[r].agentID >> :
               r \in 1..Len(assignments_df)} = ResolvedPairs
        /\ Len(assignments_df) = Cardinality(ResolvedPairs)
        /\ \A r \in 1..Len(assignments_df) :
               /\ assignments_df[r].testName = TestNameOf(assignments_df[r].testID)
               /\ assignments_df[r].agentName = AgentNameOf(assignments_df[r].agentID)

\* an assignment list of at least three rows, one with a name found and one
\* with an agent id that is in no lookup table
C10_Witness ==
    /\ AssignmentsBuilt
    /\ Len(assignments_df) >= 3
    /\ \E r \in 1..Len(assignments_df) : assignments_df[r].agentName = << >>
    /\ \E r \in 1..Len(assignments_df) : assignments_df[r].agentName # << >>

(***************************************************************************)
(* C11: end to end, with the inventory A1 (user bob, local address         *)
(* 10.0.0.5) and A2 (user alice, local address 192.168.1.5), the one label *)
(* L1 (AND, username filter [bob]) and the one test T1 (agent-labels,      *)
(* label ids [L1]), the assignment list is exactly [(T1, A1)].             *)
(***************************************************************************)
ScenarioInputs ==
    /\ Len(api_agents) = 2
    /\ api_agents[1].id = A1 /\ api_agents[1].userNames = {Bob}
    /\ endpoint_agents_df[1].localIpv4 = Ip10
    /\ api_agents[2].id = A2 /\ api_agents[2].userNames = {Alice}
    /\ endpoint_agents_df[2].localIpv4 = Ip192
    /\ Len(api_labels) = 1
    /\ api_labels[1].id = L1
    /\ ModeText(labels_df[1]) = MatchAnd
    /\ api_labels[1].filters = << Filter(KeyUsername, << Bob >>) >>
    /\ Len(api_tests) = 1
    /\ api_tests[1].testId = T1
    /\ api_tests[1].agentSelectorType = SelAgentLabels
    /\ api_tests[1].endpointAgentLabels = << L1 >>

C11_ScenarioYieldsT1A1 ==
    ScenarioInputs /\ pc = "done" =>
        [r \in 1..Len(assignments_df) |->
            << assignments_df[r].testID, assignments_df[r].agentID >>] = << << T1, A1 >> >>

\* the run of the scenario has ended, the label index holds A1 alone for L1
\* and the assignment list has one row
C11_Witness ==
    /\ ScenarioInputs
    /\ pc = "done"
    /\ DictGet(label_agents_map, L1) = {A1}
    /\ Len(assignments_df) = 1

(***************************************************************************)
(* Vocabulary of the properties about a single call of                     *)
(* agent_matches_filter: the API's record of the agent, and the clause the *)
(* arguments are, its key read in any letter case and with blanks around   *)
(* it, its mode read in any letter case.                                   *)
(***************************************************************************)
FilterReturned == pc = "filter_done"

CallAgent == api_agents[1]

RecognizedKeys == {KeyAgentId, KeyUsername, KeyLocalNetwork, KeyVpnVendor, KeyConnection}

ClauseKey == Strip(Lower(arg_filter_key))

ClauseModeIsIn == Lower(arg_mode) = ModeIn

\* the call has returned the value of a clause of this key with mode "in"
ClauseEvaluated(key) == FilterReturned /\ ClauseModeIsIn /\ ClauseKey = key

\* the agent's local IPv4 addresses
LocalAddresses(agent) == {ip \in agent.ipAddresses : is_private_ipv4(ip)}

(***************************************************************************)
(* C12: a local-network clause evaluates true iff some local address of    *)
(* the agent is a valid IP address and lies inside some clause value that  *)
(* is a valid network; the result is a boolean for every address and value *)
(* (nothing is raised), a clause whose only value is "not-a-cidr" is       *)
(* false, and a valid value after an invalid one is still tested.          *)
(***************************************************************************)
C12_LocalNetworkSkipsInvalid ==
    ClauseEvaluated(KeyLocalNetwork) =>
        /\ filter_result \in BOOLEAN
        /\ filter_result =
               \E ip \in LocalAddresses(CallAgent) :
                   \E i \in 1..Len(arg_filter_values) :
                       /\ ValidIp(ip)
                       /\ ValidNetwork(arg_filter_values[i])
                       /\ InNetwork(ip, arg_filter_values[i])
        /\ arg_filter_values = << NotACidr >> => filter_result = FALSE
        /\ \A i, j \in 1..Len(arg_filter_values) :
               /\ i < j
               /\ ~ValidNetwork(arg_filter_values[i])
               /\ ValidNetwork(arg_filter_values[j])
               /\ \E ip \in LocalAddresses(CallAgent) :
                      ValidIp(ip) /\ InNetwork(ip, arg_filter_values[j])
               => filter_result = TRUE

\* a clause whose first value is no network and whose second value is one is
\* true for an agent that has an address that is no IP address and one that is
C12_Witness ==
    /\ ClauseEvaluated(KeyLocalNetwork)
    /\ Len(arg_filter_values) = 2
    /\ ~ValidNetwork(arg_filter_values[1])
    /\ ValidNetwork(arg_filter_values[2])
    /\ \E ip \in LocalAddresses(CallAgent) : ~ValidIp(ip)
    /\ filter_result = TRUE

C14_MissingIdFailsFast ==
    /\ None \notin DictKeys(label_agents) \cup DictKeys(test_agents)
    /\ LabelIndexBuilt => \A l \in 1..Len(labels_df) : labels_df[l].id # None
    /\ TestMapBuilt => \A t \in 1..Len(scheduled_tests_df) : scheduled_tests_df[t].testID # None

(***************************************************************************)
(* C15: no stage works on partially built input. Whenever                  *)
(* build_test_agents_map is at a test, the label index holds the final set *)
(* of every label; when build_test_agent_assignment_df starts, the test map*)
(* holds the final set of every test, and it is the same map until the run *)
(* ends; and while build_label_agents_map scans the agents for a label,    *)
(* the sets it has stored are those of the labels before that one.         *)
(***************************************************************************)
\* the ids of all agents of the inventory that match the label
FinalLabelSet(label_row) ==
    {endpoint_agents_df[a].id : a \in
        {b \in 1..Len(endpoint_agents_df) :
            agent_matches_label(endpoint_agents_df[b], label_row)}}

LabelRowOf(label_id) ==
    labels_df[CHOOSE l \in 1..Len(labels_df) : labels_df[l].id = label_id]

\* the map has an entry for every label, and every entry is final
IsFinalLabelIndex(map) ==
    IF labels_df # << >> /\ endpoint_agents_df # << >>
    THEN /\ DictKeys(map) = {labels_df[l].id : l \in 1..Len(labels_df)}
         /\ \A i \in 1..Len(map) : map[i].val = FinalLabelSet(LabelRowOf(map[i].key))
    ELSE map = EmptyDict

TestRowOf(test_id) ==
    scheduled_tests_df[CHOOSE t \in 1..Len(scheduled_tests_df) :
                           scheduled_tests_df[t].testID = test_id]

\* the map has an entry for every test, and every entry is final
IsFinalTestMap(map) ==
    /\ DictKeys(map) = {scheduled_tests_df[t].testID : t \in 1..Len(scheduled_tests_df)}
    /\ \A i \in 1..Len(map) :
           map[i].val = assigned_ids(TestRowOf(map[i].key), label_agents_map,
                                     all_agent_ids(endpoint_agents_df))

\* build_test_agents_map is about to resolve a test or to return
ResolverReads == pc = "test_loop"

ResolverStarted == pc \in {"test_loop", "project_item", "project_rows"} \/ AssignmentsBuilt

ProjectorStarted == pc \in {"project_item", "project_rows"} \/ AssignmentsBuilt

C15_StagesSeeFinalInput ==
    /\ ResolverReads => IsFinalLabelIndex(label_agents_map)
    /\ TestMapBuilt => IsFinalTestMap(test_agents_map)
    /\ ProjectorStarted => test_agents_map = test_agents
    /\ pc = "label_loop" =>
           /\ Len(label_agents) = lbl_idx - 1
           /\ \A i \in 1..Len(label_agents) : label_agents[i].key = labels_df[i].id

\* the projector is at work on a test map of two tests, resolved over a label
\* index of two labels, one of them with a set of two agents
C15_Witness ==
    /\ pc = "project_rows"
    /\ pending # {}
    /\ Len(test_agents_map) = 2
    /\ Len(label_agents_map) = 2
    /\ \E i \in 1..Len(label_agents_map) : Cardinality(label_agents_map[i].val) = 2

(***************************************************************************)
(* C16: with one worker per label (labels with unique ids), whatever the   *)
(* interleaving of the workers' scans, the set of a worker is at every     *)
(* moment the set of its own label over the agents it has scanned so far   *)
(* (no step of another worker shows in it), a set is merged only when its  *)
(* worker has scanned the whole inventory, and the map returned has the    *)
(* keys and the sets of the map the sequential build_label_agents_map      *)
(* returns.                                                                *)
(***************************************************************************)
\* the ids of the first n agents of the inventory that match the label
ScannedSet(label_row, n) ==
    {endpoint_agents_df[a].id : a \in
        {b \in 1..n : agent_matches_label(endpoint_agents_df[b], label_row)}}

\* dict equality: the same keys with the same values
DictEqual(d, e) ==
    /\ DictKeys(d) = DictKeys(e)
    /\ \A k \in DictKeys(d) : DictGet(d, k) = DictGet(e, k)

VpnInfoText(agent) ==
    Join([i \in 1..Len(agent.vpnProfiles) |-> VpnInfoStr(agent.vpnProfiles[i])], << "|" >>)

\* s and t are equal up to the case of their letters
EqualIgnoringCase(s, t) ==
    Len(s) = Len(t) /\ \A i \in 1..Len(s) : LowerChar(s[i]) = LowerChar(t[i])

\* value occurs somewhere in text, up to the case of the letters
OccursIgnoringCase(text, value) ==
    \E k \in 0..(Len(text) - Len(value)) :
        EqualIgnoringCase(SubSeq(text, k + 1, k + Len(value)), value)

C17_VpnVendorIsSubstringIgnoringCase ==
    ClauseEvaluated(KeyVpnVendor) =>
        /\ filter_result =
               \E i \in 1..Len(arg_filter_values) :
                   OccursIgnoringCase(VpnInfoText(CallAgent), arg_filter_values[i])
        /\ CallAgent.vpnProfiles = << >> => filter_result = FALSE

\* a clause is true though none of its values occurs in the text as written
C17_Witness ==
    /\ ClauseEvaluated(KeyVpnVendor)
    /\ filter_result = TRUE
    /\ arg_filter_values # << >>
    /\ \A i \in 1..Len(arg_filter_values) :
           ~Contains(VpnInfoText(CallAgent), arg_filter_values[i])

(***************************************************************************)
(* C18: a connection clause evaluates true iff some hardware type of the   *)
(* agent equals some value of the clause up to the case of the letters; an *)
(* agent without hardware type never matches.                              *)
(***************************************************************************)
C18_ConnectionIntersectsIgnoringCase ==
    ClauseEvaluated(KeyConnection) =>
        /\ filter_result =
               \E h \in CallAgent.hardwareTypes :
                   \E i \in 1..Len(arg_filter_values) :
                       EqualIgnoringCase(h, arg_filter_values[i])
        /\ CallAgent.hardwareTypes \subseteq {Empty} => filter_result = FALSE

\* a clause is true though no hardware type of the agent is one of its values
\* as written
C18_Witness ==
    /\ ClauseEvaluated(KeyConnection)
    /\ filter_result = TRUE
    /\ CallAgent.hardwareTypes \cap Range(arg_filter_values) = {}

(***************************************************************************)
(* C19: a username clause evaluates true iff the agent's set of usernames  *)
(* and the clause's values have a member in common, the strings compared   *)
(* exactly; an agent without username never matches, and the call returns  *)
(* a boolean for it.                                                       *)
(***************************************************************************)
\* the agent's usernames, as fetch_endpoint_agents collects them
Usernames(agent) == {Strip(u) : u \in {x \in agent.userNames : x # << >>}}

C19_UsernameIntersectsExactly ==
    ClauseEvaluated(KeyUsername) =>
        /\ filter_result \in BOOLEAN
        /\ filter_result = (Usernames(CallAgent) \cap Range(arg_filter_values) # {})
        /\ Usernames(CallAgent) = {} => filter_result = FALSE

\* a clause is false for an agent that has a username equal to a value up to
\* the case of the letters, and to no value exactly
C19_Witness ==
    /\ ClauseEvaluated(KeyUsername)
    /\ filter_result = FALSE
    /\ \E u \in Usernames(CallAgent) :
           \E i \in 1..Len(arg_filter_values) : EqualIgnoringCase(u, arg_filter_values[i])

(***************************************************************************)
(* C20: build_test_agents_map and build_test_agent_assignment_df leave the *)
(* label index as it was at the call: the same keys in the same order with *)
(* the same sets. The set of every test is an object of its own, shared    *)
(* with no label, with no other test and not with all_agent_ids, it holds  *)
(* what the test is resolved to, and all_agent_ids still holds the ids of  *)
(* the inventory.                                                          *)
(***************************************************************************)
\* the label index main passes to build_test_agents_map: the dict as
\* build_label_agents_map returned it, or the empty dict when it was not called
IndexAtCall ==
    IF labels_df # << >> /\ endpoint_agents_df # << >> THEN label_agents ELSE EmptyDict

RefsOf(refs) == {refs[i].val : i \in 1..Len(refs)}

C20_ResolverLeavesLabelIndex ==
    ResolverStarted =>
        /\ label_agents_map = IndexAtCall
        /\ DictOfObjects(label_refs, heap) = IndexAtCall
        /\ heap[all_ref] = InventoryIds
        /\ \A i, j \in 1..Len(test_refs) : i # j => test_refs[i].val # test_refs[j].val
        /\ RefsOf(test_refs) \cap (RefsOf(label_refs) \cup {all_ref}) = {}
        /\ \A i \in 1..Len(test_refs) :
               heap[test_refs[i].val] = DictGet(test_agents, test_refs[i].key)

\* both tests are resolved: an agent-labels test to the agents of two labels
\* of the index, more than one of the labels has, and an all-agents test
C20_Witness ==
    /\ TestMapBuilt
    /\ TestsOfType(SelAllAgents) # {}
    /\ \E t \in TestsOfType(SelAgentLabels) :
           /\ Cardinality(KnownLabelIds(t)) = 2
           /\ \E l \in KnownLabelIds(t) :
                  /\ DictGet(label_agents_map, l) # {}
                  /\ DictGet(label_agents_map, l) # ResolvedIds(t)

(***************************************************************************)
(* C21: every agent set of the label index is a subset of the agent ids of *)
(* the inventory, and once build_label_agents_map has returned the index   *)
(* has exactly one key per label id of the catalog, also for a label that  *)
(* matches nothing; the set of every all-agents or agent-labels test is a  *)
(* subset of the inventory's agent ids, and every assignment row whose     *)
(* agent id is not in the inventory is a row of a specific-agents test.    *)
(***************************************************************************)
CatalogIds == {labels_df[l].id : l \in 1..Len(labels_df)}

C21_IndexWithinInventory ==
    /\ \A i \in 1..Len(label_agents_map) : label_agents_map[i].val \subseteq InventoryIds
    /\ LabelIndexBuilt =>
           /\ DictKeys(label_agents_map) = CatalogIds
           /\ Len(label_agents_map) = Cardinality(CatalogIds)
    /\ TestMapBuilt =>
           \A t \in TestsOfType(SelAllAgents) \cup TestsOfType(SelAgentLabels) :
               ResolvedIds(t) \subseteq InventoryIds
    /\ AssignmentsBuilt =>
           \A r \in 1..Len(assignments_df) :
               assignments_df[r].agentID \notin InventoryIds =>
                   \E t \in TestsOfType(SelSpecificAgents) :
                       api_tests[t].testId = assignments_df[r].testID

\* the run has ended with an index that has a key for a label that matches
\* nothing and a key for a label that matches an agent, with an agent-labels
\* test resolved to agents of the inventory, and with a row of another test
\* for an agent id that is not in the inventory
C21_Witness ==
    /\ AssignmentsBuilt
    /\ \E l \in CatalogIds : DictHas(label_agents_map, l) /\ DictGet(label_agents_map, l) = {}
    /\ \E t \in TestsOfType(SelAgentLabels) : ResolvedIds(t) # {}
    /\ \E r \in 1..Len(assignments_df) : assignments_df[r].agentID \notin InventoryIds

(***************************************************************************)
(* C22: in main, when the label catalog or the agent inventory is empty,   *)
(* build_label_agents_map is not run and the label index is the empty map; *)
(* when the scheduled-test list or the agent inventory is empty,           *)
(* build_test_agents_map and build_test_agent_assignment_df are not run,   *)
(* the test map stays empty and the assignment list has no row, also when  *)
(* a specific-agents test lists agent ids.                                 *)
(***************************************************************************)
NoLabelsOrNoAgents == labels_df = << >> \/ endpoint_agents_df = << >>

NoTestsOrNoAgents == scheduled_tests_df = << >> \/ endpoint_agents_df = << >>

C22_EmptyInputsSkipStages ==
    /\ NoLabelsOrNoAgents =>
           /\ pc # "label_loop"
           /\ label_agents = EmptyDict
           /\ pc # "main_labels" => label_agents_map = EmptyDict
    /\ NoTestsOrNoAgents =>
           /\ pc \notin {"test_loop", "project_item", "project_rows"}
           /\ test_agents = EmptyDict
           /\ test_agents_map = EmptyDict
           /\ assignments_df = << >>

\* a run over an empty inventory, a catalog with a label and a test list
\* with a specific-agents test that lists agent ids has ended
C22_Witness ==
    /\ pc = "done"
    /\ api_agents = << >>
    /\ endpoint_agents_df = << >>
    /\ labels_df # << >>
    /\ \E t \in TestsOfType(SelSpecificAgents) : api_tests[t].agents # << >>
    /\ assignments_df = << >>

====
